---- MODULE Spec2Model ----
(***************************************************************************)
(* Model of codeway.py: one run of the command line tool.                  *)
(*                                                                         *)
(* Text is modelled as a sequence of chunks (strings); concatenation is    *)
(* \o.  In a path "/" is a chunk of its own and no other chunk holds one;  *)
(* API error details are sequences of one-character chunks; so dirname,    *)
(* join, basename, lower() and the substring test are computed as the      *)
(* code computes them.  A Python value that may be None is an Option       *)
(* record [some, val].  "WARN " stands for the warning-sign prefix of the  *)
(* diagnostics.                                                            *)
(***************************************************************************)
EXTENDS Integers, Sequences, FiniteSets, TLC

\* ---------------------------------------------------------------- bounds
MaxFiles == 3
MaxBlocks == 2

\* ------------------------------------------------------ program constants
DEFAULT_MODEL == "claude-3-sonnet-20240229"
DEFAULT_MAX_TOKENS == 4000
API_KEY_ENV_VAR == "ANTHROPIC_API_KEY"
PreviewLen == 500

\* ----------------------------------------------------------- Python values
None == [some |-> FALSE, val |-> <<>>]
Some(v) == [some |-> TRUE, val |-> v]

\* a bug: `x is None` where the code tests truthiness
NotIsNone(x) == ~x.some

\* Python truthiness of an optional string: `not x`
Not(x) == ~x.some \/ x.val = <<>>

\* s[:n]
Take(s, n) == SubSeq(s, 1, IF Len(s) < n THEN Len(s) ELSE n)

\* sep.join(parts)
RECURSIVE Join(_, _)
Join(sep, parts) ==
    IF parts = <<>> THEN <<>>
    ELSE IF Len(parts) = 1 THEN parts[1]
    ELSE parts[1] \o sep \o Join(sep, Tail(parts))

\* str.lower() on the letters that occur in the modelled details
LowerChar(c) ==
    CASE c = "C" -> "c" [] c = "O" -> "o" [] c = "N" -> "n" [] c = "T" -> "t"
      [] c = "E" -> "e" [] c = "X" -> "x" [] c = "L" -> "l" [] c = "G" -> "g"
      [] c = "H" -> "h" [] c = "D" -> "d" [] c = "K" -> "k" [] c = "I" -> "i"
      [] c = "M" -> "m" [] OTHER -> c

Lower(s) == [i \in 1..Len(s) |-> LowerChar(s[i])]

\* needle in hay
Contains(hay, needle) ==
    \E i \in 0..(Len(hay) - Len(needle)) :
        SubSeq(hay, i + 1, i + Len(needle)) = needle

\* os.path.basename: what follows the last "/"
RECURSIVE basename(_)
basename(p) ==
    IF p = <<>> THEN <<>>
    ELSE IF p[Len(p)] = "/" THEN <<>>
    ELSE basename(SubSeq(p, 1, Len(p) - 1)) \o <<p[Len(p)]>>

\* str.rstrip('/')
RECURSIVE RStripSlash(_)
RStripSlash(p) ==
    IF p = <<>> THEN <<>>
    ELSE IF p[Len(p)] = "/" THEN RStripSlash(SubSeq(p, 1, Len(p) - 1))
    ELSE p

\* os.path.dirname: what precedes the basename, without its trailing
\* slashes unless it is slashes only
dirname(p) ==
    LET head == SubSeq(p, 1, Len(p) - Len(basename(p)))
    IN  IF RStripSlash(head) = <<>> THEN head ELSE RStripSlash(head)

\* os.path.join(a, b)
path_join(a, b) ==
    IF b # <<>> /\ b[1] = "/" THEN b
    ELSE IF a = <<>> \/ a[Len(a)] = "/" THEN a \o b
    ELSE a \o <<"/">> \o b

\* values of __file__: the script named as it is run from its own directory,
\* by an absolute path, and in the root directory
ModuleFiles ==
    { <<"codeway.py">>,
      <<"/", "pkg", "/", "codeway.py">>,
      <<"/", "codeway.py">> }

\* ------------------------------------------------------------ environment
\* The code-file paths a run may name, and what open() finds there.
PathDA == <<"d", "/", "a">>
PathE  == <<"e">>
PathM  == <<"m">>
PathU  == <<"u">>
Paths  == {PathDA, PathE, PathM, PathU}

File(kind, content) == [kind |-> kind, content |-> content]

\* kind "ok": readable; "missing": FileNotFoundError; "error": any other
\* exception of open()/read() (permissions, decoding, a directory ...)
FileSystem(p) ==
    CASE p = PathDA -> File("ok", <<"x = 1">>)
      [] p = PathE  -> File("ok", <<>>)
      [] p = PathM  -> File("missing", <<>>)
      [] OTHER      -> File("error", <<>>)

\* what may be found at CODEWAY_PROMPT_FILENAME (its text character by
\* character, for the [:500] of the verbose preview)
FrameworkFiles ==
    { File("ok", <<"C", "W">>), File("ok", <<>>),
      File("missing", <<>>), File("error", <<>>) }

\* values of os.environ.get(API_KEY_ENV_VAR)
KeyValues == { None, Some(<<>>), Some(<<"sk-key">>) }

\* command lines: argparse nargs='+' gives at least one file
FileLists == UNION { [1..n -> Paths] : n \in 1..MaxFiles }

Options ==
    { [model |-> DEFAULT_MODEL, max_tokens |-> DEFAULT_MAX_TOKENS],
      [model |-> "claude-3-opus-20240229", max_tokens |-> 1000] }

\* ---- the remote API: what client.messages.create does when it is called
TextBlock(t) == [type |-> "text", text |-> t]
ToolBlock    == [type |-> "tool_use", text |-> <<>>]
Blocks == { TextBlock(<<>>), TextBlock(<<"analysis A">>),
            TextBlock(<<"analysis B">>), ToolBlock }
BlockLists == UNION { [1..n -> Blocks] : n \in 0..MaxBlocks }

NeedleContext == <<"c","o","n","t","e","x","t","_","l","e","n","g","t","h",
                   "_","e","x","c","e","e","d","e","d">>
NeedleToken == <<"t","o","k","e","n"," ","l","i","m","i","t">>

\* str(e.response) of a status error: a core, possibly inside other text
DetailCores ==
    { NeedleContext,
      NeedleToken,
      <<"C","O","N","T","E","X","T","_","L","E","N","G","T","H",
        "_","E","X","C","E","E","D","E","D">>,
      <<"T","o","k","e","n"," ","L","i","m","i","t">>,
      <<"c","o","n","t","e","x","t"," ","l","e","n","g","t","h">>,
      <<"t","o","k","e","n","_","l","i","m","i","t">>,
      <<"b","a","d"," ","j","s","o","n">> }
Details == { pre \o core : pre \in { <<>>, <<"<", "4", "0", "0", " ">> },
                           core \in DetailCores }
StatusCodes == { 400, 401, 429, 500 }

Remote(kind, status, detail, content, has_text, text) ==
    [kind |-> kind, status_code |-> status, response |-> detail,
     content |-> content, has_text |-> has_text, text |-> text]

\* kind "ok": a message is returned; "connection": APIConnectionError;
\* "status": APIStatusError; "anthropic": another AnthropicError;
\* "unexpected": any other Exception
RemoteOk ==
    { Remote("ok", 200, <<>>, c, FALSE, <<>>) : c \in BlockLists }
    \cup { Remote("ok", 200, <<>>, <<>>, TRUE, t) : t \in { <<>>, <<"legacy text">> } }
RemoteStatus ==
    { Remote("status", s, d, <<>>, FALSE, <<>>) : s \in StatusCodes, d \in Details }
RemoteOther ==
    { Remote(k, 0, <<"e">>, <<>>, FALSE, <<>>) :
        k \in { "connection", "anthropic", "unexpected" } }
Remotes == RemoteOk \cup RemoteStatus \cup RemoteOther
NoRemote == Remote("none", 0, <<>>, <<>>, FALSE, <<>>)

\* ------------------------------------------------------- helper functions
\* read_file_content(filepath, is_critical), on the file found at filepath:
\* the value returned, the diagnostics printed, and whether sys.exit(1) ran
read_file_content(filepath, file, is_critical) ==
    CASE file.kind = "ok" ->
           [content |-> Some(file.content), err |-> <<>>, exits |-> FALSE]
      [] file.kind = "missing" ->
           [content |-> None,
            err |-> << <<"WARN Error: File not found: ">> \o filepath >>,
            exits |-> is_critical]
      [] OTHER ->
           [content |-> None,
            err |-> << <<"WARN Error reading file ">> \o filepath \o <<": ", "e">> >>,
            exits |-> is_critical]

\* get_api_key: the value of the variable, with the diagnostics when it is
\* unset or empty
get_api_key(value) ==
    [api_key |-> value,
     err |-> IF Not(value)
             THEN << <<"WARN Error: Environment variable '", API_KEY_ENV_VAR,
                       "' not set.">>,
                     <<"Please set the environment variable with your Anthropic API key.">> >>
             ELSE <<>>]

\* initialize_anthropic_client: ctor_ok is whether Anthropic(api_key=...)
\* returns rather than raises
initialize_anthropic_client(api_key, ctor_ok) ==
    IF Not(api_key) THEN [client |-> FALSE, err |-> <<>>]
    ELSE IF ctor_ok THEN [client |-> TRUE, err |-> <<>>]
    ELSE [client |-> FALSE,
          err |-> << <<"WARN Error initializing Anthropic client: ", "e">> >>]

\* a bug: the first block's text whatever its type
FirstBlockAnyType(content) ==
    IF content = <<>> THEN None ELSE Some(content[1].text)

\* next((block.text for block in content if block.type == 'text'), None)
RECURSIVE FirstTextBlock(_)
FirstTextBlock(content) ==
    IF content = <<>> THEN None
    ELSE IF content[1].type = "text" THEN Some(content[1].text)
    ELSE FirstTextBlock(Tail(content))

HintAuth      == <<"   (Check if your API key is correct and active)">>
HintRate      == <<"   (You might be exceeding rate limits)">>
HintContext   == <<"   (Input code + system prompt likely exceed the model's context window)">>
HintBadInput  == <<"   (Bad request - check input formatting or parameters)">>
WarnNoText    == <<"WARN Warning: No text content found in Claude's response.">>
WarnShape     == <<"WARN Warning: Unexpected response structure from Claude.">>
ErrNoSystem   == <<"WARN Error: System prompt (from codeway.md) is missing or empty.">>

\* the response_text computed from a returned message, with its warnings
ExtractText(message) ==
    IF message.content # <<>>
    THEN LET text_block == FirstTextBlock(message.content)
         IN  IF ~Not(text_block)
             THEN [text |-> text_block.val, err |-> <<>>]
             ELSE [text |-> <<>>, err |-> <<WarnNoText>>]
    ELSE IF message.has_text
    THEN [text |-> message.text, err |-> <<>>]
    ELSE [text |-> <<>>,
          err |-> <<WarnShape, <<"Full response object: ", "message">> >>]

\* a bug: the detail is searched without lower()
StatusHintCaseSensitive(status_code, response) ==
    IF status_code = 401 THEN <<HintAuth>>
    ELSE IF status_code = 429 THEN <<HintRate>>
    ELSE IF status_code = 400
    THEN IF Contains(response, NeedleContext) \/ Contains(response, NeedleToken)
         THEN <<HintContext>>
         ELSE <<HintBadInput>>
    ELSE <<>>

\* the guidance lines of the APIStatusError handler
StatusHint(status_code, response) ==
    IF status_code = 401 THEN <<HintAuth>>
    ELSE IF status_code = 429 THEN <<HintRate>>
    ELSE IF status_code = 400
    THEN LET response_body == Lower(response)
         IN  IF Contains(response_body, NeedleContext)
                \/ Contains(response_body, NeedleToken)
             THEN <<HintContext>>
             ELSE <<HintBadInput>>
    ELSE <<>>

StatusText(status_code) == ToString(status_code)

\* the except clauses of call_claude_api
HandleError(remote) ==
    CASE remote.kind = "connection" ->
           << <<"WARN API Connection Error: Please check your network connection. ">>
              \o remote.response >>
      [] remote.kind = "status" ->
           << <<"WARN API Status Error: ", StatusText(remote.status_code), " - ">>
              \o remote.response >>
           \o StatusHint(remote.status_code, remote.response)
      [] remote.kind = "anthropic" ->
           << <<"WARN Anthropic API Error: ">> \o remote.response >>
      [] OTHER ->
           << <<"WARN An unexpected error occurred during API call: ">>
              \o remote.response >>

Request(model, max_tokens, system_prompt, user_prompt) ==
    [model |-> model, max_tokens |-> max_tokens,
     messages |-> << [role |-> "user", content |-> user_prompt] >>,
     system |-> system_prompt]

\* a bug: only an absent system prompt stops the call, an empty one is sent
SystemPromptIsNone(system_prompt) == ~system_prompt.some

\* `if not system_prompt:`
SystemPromptMissing(system_prompt) == Not(system_prompt)

\* a bug: the request is sent again
SendTwice(request) == <<request, request>>

\* client.messages.create(**api_args): the requests that go out
Send(request) == <<request>>

\* call_claude_api: the value returned, what is printed, and the requests
\* handed to client.messages.create; remote is what create does
call_claude_api(model, max_tokens, system_prompt, user_prompt, remote) ==
    LET out == << <<"\nSending request to Claude (model: ", model, ")...">> >>
    IN  IF SystemPromptMissing(system_prompt)
        THEN [result |-> None, out |-> out, err |-> <<ErrNoSystem>>, sent |-> <<>>]
        ELSE LET sent == Send(Request(model, max_tokens, system_prompt.val, user_prompt))
             IN  IF remote.kind = "ok"
                 THEN LET got == ExtractText(remote)
                      IN  [result |-> Some(got.text), out |-> out,
                           err |-> got.err, sent |-> sent]
                 ELSE [result |-> None, out |-> out,
                       err |-> HandleError(remote), sent |-> sent]

\* --------------------------------------------------------- main: helpers
\* bugs: the is_critical flags of the two reads exchanged
FrameworkNotCritical == FALSE
CodeFileCritical == TRUE

\* is_critical of the two calls of read_file_content in main
FrameworkIsCritical == TRUE
CodeFileIsCritical  == FALSE

StartMarker(filepath) == <<"--- Start of code file: ">> \o basename(filepath) \o <<" ---">>
EndMarker(filepath)   == <<"--- End of code file: ">> \o basename(filepath) \o <<" ---\n">>

\* a bug: the file's segments are put in front
PrependFile(aggregated, filepath, content) ==
    << StartMarker(filepath), content, EndMarker(filepath) >> \o aggregated

\* the three appends of the loop body
AppendFile(aggregated, filepath, content) ==
    aggregated \o << StartMarker(filepath), content, EndMarker(filepath) >>

\* `if content is not None:`
WasRead(content) == content.some

\* a bug: the check for zero files is missing
NeverNoValidFiles(n) == FALSE

\* `if valid_files_processed == 0:`
NoValidFiles(n) == n = 0

\* the f-string of final_user_prompt
UserPrompt(n, combined) ==
    <<"Apply the Code Way framework (provided in the system prompt) to analyze the following code contained in ",
      ToString(n), " file(s):\n\n">>
    \o combined
    \o <<"\n\n", "Provide your analysis based *only* on the framework and the code provided.">>

\* a bug: the response is rendered whatever the call returned
AlwaysRender(analysis_response) == TRUE

\* `if analysis_response is not None:`
ShouldRender(analysis_response) == analysis_response.some

Banner == <<"\n--- Code Way Analysis Response ---">>
Footer == <<"----------------------------------">>
ResponseBlock(text) == << Banner, text, Footer >>

\* ------------------------------------------------------------------ state
VARIABLES
    module_file,            \* __file__ of codeway.py
    args,                   \* the parsed command line
    pc,                     \* where main is
    api_key, client, codeway_system_prompt,
    idx,                    \* position of the for loop in args.files
    code_files_aggregated, valid_files_processed,
    combined_code_text, final_user_prompt,
    analysis_response,
    stdout, stderr,         \* the lines printed to each stream
    reads,                  \* the paths opened, in order
    requests,               \* the requests given to client.messages.create
    exit_code,              \* the status of sys.exit; -1 while running
    env_framework,          \* what was found at the framework path
    env_remote              \* what the remote did when it was called

vars == << module_file, args, pc, api_key, client, codeway_system_prompt, idx,
           code_files_aggregated, valid_files_processed, combined_code_text,
           final_user_prompt, analysis_response, stdout, stderr, reads,
           requests, exit_code, env_framework, env_remote >>

\* os.path.join(os.path.dirname(__file__), "prompts", "codeway.md")
CODEWAY_PROMPT_FILENAME ==
    path_join(path_join(dirname(module_file), <<"prompts">>), <<"codeway.md">>)

\* the prints of `if args.verbose:`
VerbosePrints(verbose, system_prompt, user_prompt) ==
    IF verbose
    THEN << <<"\n--- Prompts Being Sent to Claude ---">>,
            <<"[SYSTEM PROMPT from ">> \o CODEWAY_PROMPT_FILENAME \o <<"]:\n">>
               \o Take(system_prompt, PreviewLen) \o <<"... (truncated)">>,
            <<"\n[USER PROMPT]:">>,
            user_prompt,
            <<"------------------------------------">> >>
    ELSE <<>>

\* the state after parser.parse_args()
Init ==
    /\ module_file \in ModuleFiles
    /\ args \in { [files |-> f, model |-> o.model, max_tokens |-> o.max_tokens,
                   verbose |-> v] : f \in FileLists, o \in Options, v \in BOOLEAN }
    /\ pc = "GetApiKey"
    /\ api_key = None
    /\ client = FALSE
    /\ codeway_system_prompt = None
    /\ idx = 1
    /\ code_files_aggregated = <<>>
    /\ valid_files_processed = 0
    /\ combined_code_text = <<>>
    /\ final_user_prompt = <<>>
    /\ analysis_response = None
    /\ stdout = <<>>
    /\ stderr = <<>>
    /\ reads = <<>>
    /\ requests = <<>>
    /\ exit_code = -1
    /\ env_framework = File("unread", <<>>)
    /\ env_remote = NoRemote

\* sys.exit(code) or fall through to the next step
Goto(exits, code, next) ==
    IF exits THEN pc' = "Exited" /\ exit_code' = code
    ELSE pc' = next /\ exit_code' = exit_code

\* lines 185-187
GetApiKey ==
    /\ pc = "GetApiKey"
    /\ \E value \in KeyValues :
         LET r == get_api_key(value)
         IN  /\ api_key' = r.api_key
             /\ stderr' = stderr \o r.err
             /\ Goto(Not(r.api_key), 1, "InitClient")
    /\ UNCHANGED << module_file, args, client, codeway_system_prompt, idx,
                    code_files_aggregated, valid_files_processed,
                    combined_code_text, final_user_prompt, analysis_response,
                    stdout, reads, requests, env_framework, env_remote >>

\* lines 189-191
InitClient ==
    /\ pc = "InitClient"
    /\ \E ctor_ok \in BOOLEAN :
         LET r == initialize_anthropic_client(api_key, ctor_ok)
         IN  /\ client' = r.client
             /\ stderr' = stderr \o r.err
             /\ Goto(~r.client, 1, "LoadFramework")
    /\ UNCHANGED << module_file, args, api_key, codeway_system_prompt, idx,
                    code_files_aggregated, valid_files_processed,
                    combined_code_text, final_user_prompt, analysis_response,
                    stdout, reads, requests, env_framework, env_remote >>

\* lines 194-201
LoadFramework ==
    /\ pc = "LoadFramework"
    /\ \E file \in FrameworkFiles :
         LET r == read_file_content(CODEWAY_PROMPT_FILENAME, file, FrameworkIsCritical)
         IN  /\ env_framework' = file
             /\ reads' = Append(reads, CODEWAY_PROMPT_FILENAME)
             /\ codeway_system_prompt' = r.content
             /\ stderr' = stderr \o r.err
             /\ stdout' = stdout
                  \o << <<"--- Reading Code Way framework from: ">>
                        \o CODEWAY_PROMPT_FILENAME \o <<" ---">> >>
                  \o (IF r.exits THEN <<>> ELSE << <<"--- Reading Code Files ---">> >>)
             /\ Goto(r.exits, 1, "ReadFiles")
    /\ code_files_aggregated' = <<>>
    /\ valid_files_processed' = 0
    /\ idx' = 1
    /\ UNCHANGED << module_file, args, api_key, client, combined_code_text,
                    final_user_prompt, analysis_response, requests, env_remote >>

\* lines 202-212: one iteration of the loop
ReadCodeFile ==
    /\ pc = "ReadFiles"
    /\ idx <= Len(args.files)
    /\ LET filepath == args.files[idx]
           r == read_file_content(filepath, FileSystem(filepath), CodeFileIsCritical)
       IN  /\ reads' = Append(reads, filepath)
           /\ stdout' = Append(stdout, <<"Processing: ">> \o filepath \o <<"...">>)
           /\ Goto(r.exits, 1, "ReadFiles")
           /\ IF r.exits
              THEN /\ stderr' = stderr \o r.err
                   /\ UNCHANGED << code_files_aggregated, valid_files_processed, idx >>
              ELSE /\ idx' = idx + 1
                   /\ IF WasRead(r.content)
                      THEN /\ code_files_aggregated' =
                                AppendFile(code_files_aggregated, filepath, r.content.val)
                           /\ valid_files_processed' = valid_files_processed + 1
                           /\ stderr' = stderr \o r.err
                      ELSE /\ stderr' = stderr \o r.err
                                \o << <<"Skipping file ">> \o filepath
                                      \o <<" due to read error.">> >>
                           /\ UNCHANGED << code_files_aggregated, valid_files_processed >>
    /\ UNCHANGED << module_file, args, api_key, client, codeway_system_prompt,
                    combined_code_text, final_user_prompt, analysis_response,
                    requests, env_framework, env_remote >>

\* lines 214-218: after the loop
CheckFiles ==
    /\ pc = "ReadFiles"
    /\ idx > Len(args.files)
    /\ IF NoValidFiles(valid_files_processed)
       THEN /\ stderr' = Append(stderr,
                <<"\nWARN Error: No valid code files could be read. Exiting.">>)
            /\ stdout' = stdout
            /\ Goto(TRUE, 1, "BuildPayload")
       ELSE /\ stdout' = Append(stdout,
                <<"Successfully read ", ToString(valid_files_processed), " code file(s).">>)
            /\ stderr' = stderr
            /\ Goto(FALSE, 1, "BuildPayload")
    /\ UNCHANGED << module_file, args, api_key, client, codeway_system_prompt, idx,
                    code_files_aggregated, valid_files_processed,
                    combined_code_text, final_user_prompt, analysis_response,
                    reads, requests, env_framework, env_remote >>

\* lines 219-235
BuildPayload ==
    /\ pc = "BuildPayload"
    /\ combined_code_text' = Join(<<"\n">>, code_files_aggregated)
    /\ final_user_prompt' = UserPrompt(valid_files_processed, combined_code_text')
    /\ stdout' = stdout \o VerbosePrints(args.verbose, codeway_system_prompt.val,
                                         final_user_prompt')
    /\ pc' = "Invoke"
    /\ UNCHANGED << module_file, args, api_key, client, codeway_system_prompt, idx,
                    code_files_aggregated, valid_files_processed,
                    analysis_response, stderr, reads, requests, exit_code,
                    env_framework, env_remote >>

\* lines 239-245: the remote is consulted only when a request goes out
Invoke ==
    /\ pc = "Invoke"
    /\ \E remote \in Remotes :
         LET r == call_claude_api(args.model, args.max_tokens,
                                  codeway_system_prompt, final_user_prompt, remote)
         IN  /\ (r.sent = <<>> => remote = CHOOSE x \in Remotes : TRUE)
             /\ env_remote' = IF r.sent = <<>> THEN NoRemote ELSE remote
             /\ analysis_response' = r.result
             /\ stdout' = stdout \o r.out
             /\ stderr' = stderr \o r.err
             /\ requests' = requests \o r.sent
    /\ pc' = "Output"
    /\ UNCHANGED << module_file, args, api_key, client, codeway_system_prompt, idx,
                    code_files_aggregated, valid_files_processed,
                    combined_code_text, final_user_prompt, reads, exit_code,
                    env_framework >>

\* lines 248-255
Output ==
    /\ pc = "Output"
    /\ IF ShouldRender(analysis_response)
       THEN /\ stdout' = stdout \o ResponseBlock(analysis_response.val)
            /\ stderr' = stderr
            /\ Goto(TRUE, 0, "Exited")
       ELSE /\ stderr' = Append(stderr, <<"\nFailed to get analysis from Claude.">>)
            /\ stdout' = stdout
            /\ Goto(TRUE, 1, "Exited")
    /\ UNCHANGED << module_file, args, api_key, client, codeway_system_prompt, idx,
                    code_files_aggregated, valid_files_processed,
                    combined_code_text, final_user_prompt, analysis_response,
                    reads, requests, env_framework, env_remote >>

Next ==
    \/ GetApiKey
    \/ InitClient
    \/ LoadFramework
    \/ ReadCodeFile
    \/ CheckFiles
    \/ BuildPayload
    \/ Invoke
    \/ Output

Spec == Init /\ [][Next]_vars

\* ------------------------------------------------------------- properties
Exited == pc = "Exited"
Files == args.files
Readable(p) == FileSystem(p).kind = "ok"
SomeReadable == \E i \in 1..Len(Files) : Readable(Files[i])
SomeUnreadable == \E i \in 1..Len(Files) : ~Readable(Files[i])
AllUnreadable == \A i \in 1..Len(Files) : ~Readable(Files[i])
Printed(stream, line) == \E i \in 1..Len(stream) : stream[i] = line
ResponseBlocks == Cardinality({ i \in 1..Len(stdout) : stdout[i] = Banner })
FrameworkUsable == env_framework.kind = "ok" /\ env_framework.content # <<>>
RemoteFailed == env_remote.kind \in { "connection", "status", "anthropic", "unexpected" }

\* C1 as the specification states it: whenever at least one input path is
\* readable, the run exits 0 and prints exactly one response block.  It is
\* read here in its most favourable sense, for runs whose credential is set
\* and whose framework document was read and is not empty; a run refuting
\* this refutes the sentence as written.
C1_AsStated ==
    (Exited /\ SomeReadable /\ FrameworkUsable) =>
        (exit_code = 0 /\ ResponseBlocks = 1)

\* C1, amended: with the credential set, the client built and a non-empty
\* framework document read, a run with at least one readable input path is
\* not aborted by its unreadable paths: every path is tried and the request
\* is sent; when the remote call returns a message the run exits 0 with
\* exactly one response block, and when it fails the run exits 1 with none.
C1_PartialFailure ==
    (Exited /\ SomeReadable /\ FrameworkUsable) =>
        /\ Len(reads) = 1 + Len(Files)
        /\ Len(requests) = 1
        /\ env_remote.kind = "ok" => (exit_code = 0 /\ ResponseBlocks = 1)
        /\ env_remote.kind # "ok" => (exit_code = 1 /\ ResponseBlocks = 0)

C1_Witness ==
    /\ Exited /\ SomeReadable /\ SomeUnreadable /\ FrameworkUsable
    /\ env_remote.kind = "ok"
    /\ exit_code = 0 /\ ResponseBlocks = 1

\* C2: when every supplied path is unreadable the run never reaches the
\* remote call, sends no request, and exits with status 1.
C2_NoInputNoCall ==
    AllUnreadable =>
        /\ requests = <<>>
        /\ pc \notin { "BuildPayload", "Invoke", "Output" }
        /\ Exited => exit_code = 1

C2_Witness ==
    /\ Exited /\ AllUnreadable /\ exit_code = 1
    /\ Len(Files) >= 2
    /\ Len(reads) = 1 + Len(Files)
    /\ requests = <<>>

\* C3: with the credential variable unset or empty the run has exited with
\* status 1 right after the lookup, having read no file and sent no request.
C3_NoCredential ==
    (pc # "GetApiKey" /\ (~api_key.some \/ api_key.val = <<>>)) =>
        /\ Exited /\ exit_code = 1
        /\ reads = <<>>
        /\ requests = <<>>

C3_Witness ==
    /\ Exited /\ exit_code = 1
    /\ api_key = Some(<<>>)
    /\ reads = <<>>

\* C4: when the framework document is absent or unreadable the run has exited
\* with status 1 at that read: the framework path is the only path opened,
\* the loop over the code files was not entered, and no request was sent.
C4_FrameworkCritical ==
    env_framework.kind \in { "missing", "error" } =>
        /\ Exited /\ exit_code = 1
        /\ reads = << CODEWAY_PROMPT_FILENAME >>
        /\ idx = 1 /\ code_files_aggregated = <<>>
        /\ requests = <<>>

C4_Witness ==
    /\ Exited /\ exit_code = 1
    /\ env_framework.kind = "error"
    /\ reads = << CODEWAY_PROMPT_FILENAME >>

\* the order of the run's states
Rank(p) ==
    CASE p = "GetApiKey" -> 0 [] p = "InitClient" -> 1 [] p = "LoadFramework" -> 2
      [] p = "ReadFiles" -> 3 [] p = "BuildPayload" -> 4 [] p = "Invoke" -> 5
      [] p = "Output" -> 6 [] OTHER -> 7

\* C5: never more than one request; exactly one once the remote invocation
\* has run with a non-empty system instruction, whatever its outcome; requests
\* go out in the invocation only; and the run's states are passed in order,
\* none revisited (only the file loop stays in its state).
C5_OneRequestNoRetry ==
    /\ [](/\ Len(requests) <= 1
          /\ (pc = "Output" /\ codeway_system_prompt.val # <<>>) => Len(requests) = 1)
    /\ [][/\ Rank(pc') >= Rank(pc)
          /\ Rank(pc') = Rank(pc) => pc = "ReadFiles"
          /\ requests' # requests => pc = "Invoke"]_vars

C5_Witness ==
    /\ Exited /\ exit_code = 1
    /\ env_remote.kind = "connection"
    /\ Len(requests) = 1

\* the segments the paths fs contribute: a triple for each readable one
RECURSIVE ExpectedSegments(_)
ExpectedSegments(fs) ==
    IF fs = <<>> THEN <<>>
    ELSE (IF Readable(Head(fs))
          THEN << <<"--- Start of code file: ">> \o basename(Head(fs)) \o <<" ---">>,
                  FileSystem(Head(fs)).content,
                  <<"--- End of code file: ">> \o basename(Head(fs)) \o <<" ---\n">> >>
          ELSE <<>>)
         \o ExpectedSegments(Tail(fs))

ReadableCount == Cardinality({ i \in 1..Len(Files) : Readable(Files[i]) })

\* C6: during the loop the aggregate holds the start/content/end triples of
\* exactly the readable paths among those processed so far, in command-line
\* order, and the counter is the number of triples; the payload joins the
\* triples of all readable paths in that order, and the N of the user
\* instruction is the number of triples.
C6_PayloadOrder ==
    /\ pc = "ReadFiles" =>
         /\ code_files_aggregated = ExpectedSegments(SubSeq(Files, 1, idx - 1))
         /\ Len(code_files_aggregated) = 3 * valid_files_processed
    /\ pc \in { "Invoke", "Output" } =>
         /\ code_files_aggregated = ExpectedSegments(Files)
         /\ Len(code_files_aggregated) = 3 * ReadableCount
         /\ combined_code_text = Join(<<"\n">>, ExpectedSegments(Files))
         /\ final_user_prompt[2] = ToString(ReadableCount)
         /\ SubSeq(final_user_prompt, 4, 3 + Len(combined_code_text))
              = combined_code_text
         /\ Len(final_user_prompt) = 5 + Len(combined_code_text)

C6_Witness ==
    /\ pc = "Invoke"
    /\ Len(Files) = 3
    /\ Readable(Files[1]) /\ ~Readable(Files[2]) /\ Readable(Files[3])
    /\ Files[1] # Files[3]
    /\ valid_files_processed = 2
    /\ final_user_prompt[2] = "2"

\* C7: every failure of the remote call (connectivity, status-coded, other
\* vendor error, unexpected exception) gives the caller None, and the run
\* then prints no response block and exits 1; a response block is printed,
\* and the run exits 0, only when the call returned text.
C7_FailureSignal ==
    /\ RemoteFailed =>
         /\ analysis_response = None
         /\ ResponseBlocks = 0
         /\ Exited => exit_code = 1
    /\ (ResponseBlocks > 0 \/ exit_code = 0) =>
         /\ Exited /\ exit_code = 0 /\ ResponseBlocks = 1
         /\ analysis_response.some
         /\ env_remote.kind = "ok"

C7_Witness ==
    /\ Exited /\ exit_code = 1
    /\ env_remote.kind = "unexpected"
    /\ analysis_response = None
    /\ Printed(stderr, <<"\nFailed to get analysis from Claude.">>)

\* the detail holds the needle at some position, letter case ignored
HasWording(detail, needle) ==
    \E i \in 0..(Len(detail) - Len(needle)) :
        \A k \in 1..Len(needle) : LowerChar(detail[i + k]) = needle[k]

Hints == { HintAuth, HintRate, HintContext, HintBadInput }
HintsPrinted == SelectSeq(stderr, LAMBDA line : line \in Hints)

\* C8: after a status-coded failure the hints printed are: the rate-limit
\* hint for 429; the credential hint for 401; for 400 the context-window
\* hint when the detail holds "context_length_exceeded" or "token limit" in
\* any letter case, the malformed-input hint otherwise; none for any other
\* status; so at most one. The run exits 1.
C8_StatusHints ==
    env_remote.kind = "status" =>
        /\ HintsPrinted =
             CASE env_remote.status_code = 429 -> <<HintRate>>
               [] env_remote.status_code = 401 -> <<HintAuth>>
               [] env_remote.status_code = 400 ->
                    IF HasWording(env_remote.response, NeedleContext)
                       \/ HasWording(env_remote.response, NeedleToken)
                    THEN <<HintContext>>
                    ELSE <<HintBadInput>>
               [] OTHER -> <<>>
        /\ Exited => exit_code = 1

C8_Witness ==
    /\ Exited /\ exit_code = 1
    /\ env_remote.kind = "status" /\ env_remote.status_code = 400
    /\ env_remote.response[Len(env_remote.response)] = "D"
    /\ HintsPrinted = <<HintContext>>

\* C9: when the framework document was read and is empty, no request is ever
\* sent; the call prints its diagnostic and returns None, and the run exits 1.
C9_EmptySystemPrompt ==
    (env_framework.kind = "ok" /\ env_framework.content = <<>>) =>
        /\ requests = <<>>
        /\ env_remote = NoRemote
        /\ pc = "Output" => (analysis_response = None /\ Printed(stderr, ErrNoSystem))
        /\ Exited => exit_code = 1

C9_Witness ==
    /\ Exited /\ exit_code = 1
    /\ env_framework = File("ok", <<>>)
    /\ Printed(stderr, ErrNoSystem)
    /\ requests = <<>>

\* the positions of the text-typed blocks of the returned message
TextPositions == { i \in 1..Len(env_remote.content) : env_remote.content[i].type = "text" }
FirstTextPosition == CHOOSE i \in TextPositions : \A j \in TextPositions : i <= j
ExpectedText ==
    IF TextPositions = {} THEN <<>> ELSE env_remote.content[FirstTextPosition].text

\* C10: for a returned message whose content is a non-empty list of blocks,
\* the call returns the text of the first text-typed block, verbatim; with no
\* text-typed block, or an empty first one, it returns the empty string and
\* warns; either way the run prints the response block with that text and
\* exits 0.
C10_TextExtraction ==
    (env_remote.kind = "ok" /\ env_remote.content # <<>>) =>
        /\ analysis_response = Some(ExpectedText)
        /\ Printed(stderr, WarnNoText) <=> ExpectedText = <<>>
        /\ Exited =>
             /\ exit_code = 0
             /\ SubSeq(stdout, Len(stdout) - 2, Len(stdout))
                  = << Banner, ExpectedText, Footer >>

C10_Witness ==
    /\ Exited /\ exit_code = 0
    /\ env_remote.kind = "ok" /\ Len(env_remote.content) = 2
    /\ env_remote.content[1].type = "tool_use"
    /\ env_remote.content[2].type = "text" /\ env_remote.content[2].text # <<>>
    /\ analysis_response = Some(env_remote.content[2].text)

\* C10, the case of an empty result rendered as a success (a reachable state).
C10_EmptyIsSuccess ==
    /\ Exited /\ exit_code = 0
    /\ env_remote.kind = "ok" /\ env_remote.content # <<>>
    /\ analysis_response = Some(<<>>)
    /\ Printed(stderr, WarnNoText)
    /\ ResponseBlocks = 1

====
